---- MODULE Spec2Model ----
(***************************************************************************)
(* A model of the object store, the tree assembler and the commit builder  *)
(* of codecrafters-git-rust (src/object.rs, src/tree.rs, src/commit.rs,    *)
(* src/git.rs).                                                            *)
(*                                                                         *)
(* Byte streams are sequences of integers.  0..255 are ordinary bytes.     *)
(* SHA-1 is modelled as a collision-free oracle: the variable sha lists    *)
(* the byte strings hashed so far, and the digest of the i-th one is the   *)
(* token DigestBase + i, which stands for its 20 raw bytes; HexBase + i    *)
(* stands for the 40 characters hex::encode makes of it.                   *)
(***************************************************************************)
EXTENDS Integers, Sequences, FiniteSets, TLC

\* ------------------------------------------------------------------ bounds
MaxLen == 2          \* longest content of an object put directly
MaxCodecOps == 2     \* operations run in one behaviour of SpecCodec
MaxNameLen == 2      \* longest name of the entries compared
MaxNodes == 3        \* files and directories under the snapshotted directory
MaxTreeOps == 2      \* operations run in one behaviour of SpecTree
MaxCommitNodes == 2  \* files and directories under a directory that is committed
MaxCommitOps == 2    \* calls of commit in one behaviour of Spec
MaxClock == 2        \* latest system time
MaxRot == 1          \* rotations of a directory listing
MaxConcReads == 1    \* reads of the store while the concurrent puts run
MaxReadOps == 1      \* reads of a store that a foreign writer filled
MaxEntries == 2
MaxStoreOps == 2      \* entries of a tree object of a foreign writer

\* --------------------------------------------------------------- constants
NUL == 0
LF == 10
SP == 32
SLASH == 47
DigestBase == 256
HexBase == 4096
DigestLen == 20
HexLen == 40
NFan == 2

VARIABLES
    inodes,     \* inode number -> bytes of the file
    tmpf,       \* inode linked at "temporary" in the current directory, 0 if none
    objs,       \* hex digest -> inode linked at .git/objects/xx/yyyy
    fanout,     \* fan-out directories present under .git/objects
    sha,        \* the SHA-1 oracle
    nops,       \* operations run so far
    puts,       \* the objects put or hashed so far and their digests (history)
    last,       \* the last operation and what it returned
    cmpA,       \* the two entries last compared
    cmpB,
    cmpRes,     \* and the Ordering returned
    wd,         \* the directory that is snapshotted
    cwdSnap,    \* whether that directory is the current directory of the process
    runs,       \* the write_tree_for runs so far (history)
    head,       \* the bytes of dot_git_path/HEAD
    gitIsCwd,   \* whether dot_git_path is the .git of the current directory
    headsDir,   \* whether the directory dot_git_path/refs/heads exists
    refs,       \* the branch file under dot_git_path ("git") and under ./.git ("cwd")
    clock,      \* the system time in seconds
    commits,    \* the calls of commit so far (history)
    procs,      \* the processes that run a put, each at its step
    jobs        \* the commit that each process runs, if it runs one

diskVars == <<inodes, tmpf, objs, fanout, sha>>
cmpVars == <<cmpA, cmpB, cmpRes>>
treeVars == <<wd, cwdSnap, runs>>
commitVars == <<head, gitIsCwd, headsDir, refs, clock, commits>>
concVars == <<procs, jobs>>
vars == <<inodes, tmpf, objs, fanout, sha, nops, puts, last, cmpA, cmpB, cmpRes,
          wd, cwdSnap, runs, head, gitIsCwd, headsDir, refs, clock, commits, procs,
          jobs>>

\* ------------------------------------------------------------------ bytes
\* a let binding: the value x, computed once, under the name F gives it
Bind(x, F(_)) == F(x)

Min(a, b) == IF a < b THEN a ELSE b

IsDigest(b) == b >= DigestBase /\ b < HexBase
IsHex(b) == b >= HexBase

\* number of bytes a stream element stands for
TokLen(b) == IF IsHex(b) THEN HexLen ELSE IF IsDigest(b) THEN DigestLen ELSE 1

\* the sum of f[lo..hi], by halves
RECURSIVE SumRange(_, _, _)
SumRange(f, lo, hi) ==
    IF lo > hi THEN 0
    ELSE IF lo = hi THEN f[lo]
    ELSE LET mid == (lo + hi) \div 2
         IN  SumRange(f, lo, mid) + SumRange(f, mid + 1, hi)

ByteLen(s) == SumRange([i \in 1..Len(s) |-> TokLen(s[i])], 1, Len(s))

\* hex::encode of a digest, and the digest a hex string names
HexEncode(d) == d - DigestBase + HexBase
HexDecode(h) == h - HexBase + DigestBase

\* format!("{}", n) of an unsigned integer
RECURSIVE Dec(_)
Dec(n) == IF n < 10 THEN <<48 + n>> ELSE Dec(n \div 10) \o <<48 + (n % 10)>>

\* impl fmt::Display for ObjectType
TypeName(t) ==
    CASE t = "Blob" -> <<98, 108, 111, 98>>
      [] t = "Tree" -> <<116, 114, 101, 101>>
      [] t = "Commit" -> <<99, 111, 109, 109, 105, 116>>

ObjectTypes == {"Blob", "Tree", "Commit"}

\* a header whose size counts the nul as well
HeaderCountsNul(t, size) == TypeName(t) \o <<SP>> \o Dec(size + 1) \o <<NUL>>

\* write!(writer, "{} {}\0", self.object_type, self.expected_size)
Header(t, size) == TypeName(t) \o <<SP>> \o Dec(size) \o <<NUL>>

\* ------------------------------------------------------------------- SHA-1
Sha1Known(reg, s) == \E i \in 1..Len(reg) : reg[i] = s
Sha1Reg(reg, s) == IF Sha1Known(reg, s) THEN reg ELSE Append(reg, s)
\* a hash under which every stream has the same digest
Sha1Collides(reg, s) == DigestBase + 1

Sha1(reg, s) ==
    IF Sha1Known(reg, s)
    THEN DigestBase + (CHOOSE i \in 1..Len(reg) : reg[i] = s)
    ELSE DigestBase + Len(reg) + 1

\* -------------------------------------------------------------------- zlib
\* The zlib stream is modelled as a two-element header (the magic byte and
\* the length of the block), the block, and the two Adler-32 sums.
ZMagic == 120
AdlerMod == 65521

\* Adler-32: a is one plus the sum of the bytes, b the sum of the values a
\* takes after each byte
AdlerA(s) == (1 + SumRange(s, 1, Len(s))) % AdlerMod

AdlerB(s) ==
    (Len(s) + SumRange([i \in 1..Len(s) |-> (Len(s) - i + 1) * s[i]], 1, Len(s))) % AdlerMod

ZlibEncode(s) == <<ZMagic, Len(s)>> \o s \o <<AdlerB(s), AdlerA(s)>>

\* what a ZlibDecoder yields for the bytes f of a file: the decompressed
\* bytes it can deliver, and whether the stream is complete and sound
ZlibDecode(f) ==
    IF Len(f) < 2 \/ f[1] # ZMagic
    THEN [data |-> <<>>, sound |-> FALSE]
    ELSE LET n == f[2]
             have == Min(n, Len(f) - 2)
             data == SubSeq(f, 3, 2 + have)
         IN  [data |-> data,
              sound |-> /\ Len(f) = n + 4
                        /\ f[n + 3] = AdlerB(data)
                        /\ f[n + 4] = AdlerA(data)]

\* ------------------------------------------------------------- file system
\* The part of the disk the store works on, and the SHA-1 oracle, as one
\* value that the operations pass along.
St == [ino |-> inodes, tmp |-> tmpf, objs |-> objs, fan |-> fanout, sha |-> sha]

\* the smallest inode number not in use
NewIno(st) == CHOOSE i \in 1..(Cardinality(DOMAIN st.ino) + 1) : i \notin DOMAIN st.ino

\* inodes nothing refers to any more are dropped; fds are the inodes that
\* running processes hold open
Gc(st, fds) ==
    LET live == {st.objs[h] : h \in DOMAIN st.objs} \cup ({st.tmp} \ {0}) \cup fds
    IN  [st EXCEPT !.ino = [i \in (DOMAIN st.ino) \cap live |-> st.ino[i]]]

\* std::fs::File::create("temporary"): truncates the file if there is one
FsCreate(st) ==
    IF st.tmp # 0
    THEN [st EXCEPT !.ino[st.tmp] = <<>>]
    ELSE LET i == NewIno(st)
         IN  [st EXCEPT !.tmp = i, !.ino = (i :> <<>>) @@ st.ino]

\* write(2) of data at offset off of a file holding old
WriteAt(old, off, data) ==
    LET n == IF Len(old) > off + Len(data) THEN Len(old) ELSE off + Len(data)
    IN  [i \in 1..n |-> IF i > off /\ i <= off + Len(data) THEN data[i - off]
                         ELSE IF i <= Len(old) THEN old[i] ELSE 0]

FsWrite(st, fd, off, data) == [st EXCEPT !.ino[fd] = WriteAt(st.ino[fd], off, data)]

\* &hash_hex[..2]: the fan-out directory of a digest
FanOut(h) == h % NFan

\* fs::create_dir_all(root_path.join(".git/objects/xx/"))
FsMkdir(st, h) == [st EXCEPT !.fan = st.fan \cup {FanOut(h)}]

\* fs::rename("temporary", root_path.join(".git/objects/xx/yyyy")), which
\* needs a file at "temporary"
FsRename(st, h) ==
    [st EXCEPT !.objs = (h :> st.tmp) @@ st.objs, !.tmp = 0]

\* ------------------------------------------------------------------ codec
\* An Object<R>: the reader is a Cursor over bytes or an open file.
CursorObject(t, bytes) ==
    [object_type |-> t, expected_size |-> ByteLen(bytes),
     reader |-> [kind |-> "cursor", bytes |-> bytes, ino |-> 0]]

\* what std::io::copy gets out of the reader
ReadAll(st, reader) ==
    IF reader.kind = "file" THEN st.ino[reader.ino] ELSE reader.bytes

\* Object::write: the bytes the HashWriter sees
Envelope(st, obj) ==
    Header(obj.object_type, obj.expected_size) \o ReadAll(st, obj.reader)

\* Object::write_to_objects, run without interruption
WriteToObjects(st, obj) ==
    Bind(FsCreate(st), LAMBDA s1 :
    Bind(Envelope(s1, obj), LAMBDA env :
    Bind(FsWrite(s1, s1.tmp, 0, ZlibEncode(env)), LAMBDA s2 :
    Bind(Sha1(s2.sha, env), LAMBDA hash :
    Bind([s2 EXCEPT !.sha = Sha1Reg(s2.sha, env)], LAMBDA s3 :
    Bind(FsMkdir(s3, HexEncode(hash)), LAMBDA s4 :
    Bind(FsRename(s4, HexEncode(hash)), LAMBDA s5 :
        [st |-> Gc(s5, {}), ok |-> TRUE, hash |-> hash])))))))

\* a dry run that hashes the content without its header
WriteBlobSinkNoHeader(st, bytes) ==
    [st |-> [st EXCEPT !.sha = Sha1Reg(st.sha, bytes)], ok |-> TRUE,
     hash |-> Sha1(st.sha, bytes)]

\* Git::hash_object's write_blob with std::io::sink() as the writer
WriteBlobSink(st, bytes) ==
    LET env == TypeName("Blob") \o <<SP>> \o Dec(ByteLen(bytes)) \o <<NUL>> \o bytes
    IN  [st |-> [st EXCEPT !.sha = Sha1Reg(st.sha, env)], ok |-> TRUE,
         hash |-> Sha1(st.sha, env)]

\* Git::hash_object with write = true
HashObjectWrite(st, bytes) ==
    Bind(FsCreate(st), LAMBDA s1 :
    Bind(TypeName("Blob") \o <<SP>> \o Dec(ByteLen(bytes)) \o <<NUL>> \o bytes, LAMBDA env :
    Bind(FsWrite(s1, s1.tmp, 0, ZlibEncode(env)), LAMBDA s2 :
    Bind(Sha1(s2.sha, env), LAMBDA hash :
    Bind([s2 EXCEPT !.sha = Sha1Reg(s2.sha, env)], LAMBDA s3 :
    Bind(FsMkdir(s3, HexEncode(hash)), LAMBDA s4 :
    Bind(FsRename(s4, HexEncode(hash)), LAMBDA s5 :
        [st |-> Gc(s5, {}), ok |-> TRUE, hash |-> hash])))))))

\* ------------------------------------------------------------------- read
\* index of the first b in s, 0 if there is none
IndexOf(s, b) ==
    IF \E i \in 1..Len(s) : s[i] = b
    THEN CHOOSE i \in 1..Len(s) : s[i] = b /\ \A j \in 1..(i - 1) : s[j] # b
    ELSE 0

\* the longest prefix of s that Read::take(n) lets through
TakeBytes(s, n) ==
    LET fits(k) == ByteLen(SubSeq(s, 1, k)) <= n
    IN  SubSeq(s, 1, CHOOSE k \in 0..Len(s) : fits(k) /\ (k < Len(s) => ~fits(k + 1)))

IsUtf8(s) == \A i \in 1..Len(s) : s[i] < 128

\* str::parse::<u64>
ParsesU64(s) ==
    LET d == IF s # <<>> /\ s[1] = 43 THEN Tail(s) ELSE s
    IN  d # <<>> /\ \A i \in 1..Len(d) : d[i] >= 48 /\ d[i] <= 57

RECURSIVE DigitsValue(_)
DigitsValue(d) ==
    IF d = <<>> THEN 0 ELSE 10 * DigitsValue(SubSeq(d, 1, Len(d) - 1)) + (d[Len(d)] - 48)

ParseU64(s) == DigitsValue(IF s[1] = 43 THEN Tail(s) ELSE s)

ParseType(s) ==
    CASE s = TypeName("Blob") -> "Blob"
      [] s = TypeName("Tree") -> "Tree"
      [] s = TypeName("Commit") -> "Commit"
      [] OTHER -> "unknown"

ReadErr(what) ==
    [res |-> what, object_type |-> "none", expected_size |-> 0, content |-> <<>>]

\* Object::read, and the bytes its reader then delivers up to end-of-stream
ObjectRead(st, h) ==
    IF h \notin DOMAIN st.objs THEN ReadErr("Err")
    ELSE
    LET z == ZlibDecode(st.ino[st.objs[h]])
        k == IndexOf(z.data, NUL)
    IN  IF k = 0 THEN (IF z.sound THEN ReadErr("Panic") ELSE ReadErr("Err"))
        ELSE
        LET header == SubSeq(z.data, 1, k - 1)
            sp == IndexOf(header, SP)
            kind == SubSeq(header, 1, sp - 1)
            size == SubSeq(header, sp + 1, Len(header))
        IN  IF ~IsUtf8(header) THEN ReadErr("Err")
            ELSE IF sp = 0 THEN ReadErr("Err")
            ELSE IF ParseType(kind) = "unknown" THEN ReadErr("Err")
            ELSE IF ~ParsesU64(size) THEN ReadErr("Err")
            ELSE [res |-> "Ok", object_type |-> ParseType(kind),
                  expected_size |-> ParseU64(size),
                  content |-> TakeBytes(SubSeq(z.data, k + 1, Len(z.data)), ParseU64(size))]

\* -------------------------------------------------------------- operations

RECURSIVE SeqsUpTo(_, _)
SeqsUpTo(S, n) ==
    IF n = 0 THEN {<<>>}
    ELSE LET shorter == SeqsUpTo(S, n - 1)
         IN  shorter \cup {Append(s, b) : s \in shorter, b \in S}

Contents == SeqsUpTo({NUL, SP, 104}, MaxLen)


NoLast ==
    [op |-> "none", object_type |-> "none", content |-> <<>>, ok |-> TRUE,
     hash |-> 0, rd |-> ReadErr("none"), bt |-> [res |-> "none", entries |-> <<>>]]

SetSt(st) ==
    /\ inodes' = st.ino
    /\ tmpf' = st.tmp
    /\ objs' = st.objs
    /\ fanout' = st.fan
    /\ sha' = st.sha

\* an object of type t and content c is built in memory and written
PutObject(t, c) ==
    /\ \E r \in {WriteToObjects(St, CursorObject(t, c))} :
          /\ SetSt(r.st)
          /\ puts' = puts \cup {[object_type |-> t, content |-> c, hash |-> r.hash, wrote |-> TRUE]}
          /\ last' = [NoLast EXCEPT !.op = "put", !.object_type = t, !.content = c,
                                    !.ok = r.ok, !.hash = r.hash]
    /\ nops' = nops + 1
    /\ UNCHANGED <<cmpVars, treeVars, commitVars, concVars>>

\* Git::hash_object on a file holding c
HashObject(write, c) ==
    /\ \E r \in {IF write THEN HashObjectWrite(St, c) ELSE WriteBlobSink(St, c)} :
          /\ SetSt(r.st)
          /\ puts' = puts \cup {[object_type |-> "Blob", content |-> c, hash |-> r.hash, wrote |-> write]}
          /\ last' = [NoLast EXCEPT !.op = IF write THEN "hash_w" ELSE "hash", !.object_type = "Blob",
                                    !.content = c, !.ok = r.ok, !.hash = r.hash]
    /\ nops' = nops + 1
    /\ UNCHANGED <<cmpVars, treeVars, commitVars, concVars>>

\* Object::read of a hex digest, the content read to its end
ReadObject(h) ==
    /\ last' = [NoLast EXCEPT !.op = "read", !.hash = h, !.rd = ObjectRead(St, h)]
    /\ nops' = nops + 1
    /\ UNCHANGED <<diskVars, puts, cmpVars, treeVars, commitVars, concVars>>

\* the store after init: no object, no temporary file
InitDisk ==
    /\ inodes = <<>>
    /\ tmpf = 0
    /\ objs = <<>>
    /\ fanout = {}
    /\ sha = <<>>

NoEntry == [mode |-> "none", name |-> <<>>, is_dir |-> FALSE]

\* Git::init: HEAD is "ref: refs/heads/master\n"
SymbolicHead == <<114, 101, 102, 58, 32, 114, 101, 102, 115, 47, 104, 101, 97, 100, 115, 47, 109, 97, 115, 116, 101, 114, 10>>

NoFile == [exists |-> FALSE, bytes |-> <<>>]

InitCommit ==
    /\ head = SymbolicHead
    /\ gitIsCwd = TRUE
    /\ headsDir = FALSE
    /\ refs = [git |-> NoFile, cwd |-> NoFile]
    /\ clock = 1
    /\ commits = <<>>

InitTree ==
    /\ wd = <<>>
    /\ cwdSnap = FALSE
    /\ runs = <<>>

InitCmp ==
    /\ cmpA = NoEntry
    /\ cmpB = NoEntry
    /\ cmpRes = "none"

\* a process that has not called anything yet
Idle ==
    [pc |-> "idle", op |-> "none", object_type |-> "none", content |-> <<>>, fd |-> 0,
     off |-> 0, stream |-> <<>>, hash |-> 0, res |-> "none"]

Procs == {1, 2}

\* a process that runs no commit
NoJob ==
    [stage |-> "none", message |-> <<>>, parent |-> <<>>, blob |-> 0, tree |-> 0, commit |-> 0,
     res |-> "none", wrote |-> FALSE]

InitConc ==
    /\ procs = [p \in Procs |-> Idle]
    /\ jobs = [p \in Procs |-> NoJob]

InitCodec ==
    /\ InitDisk
    /\ InitCmp
    /\ InitTree
    /\ InitCommit
    /\ InitConc
    /\ nops = 0
    /\ puts = {}
    /\ last = NoLast

NextCodec ==
    /\ nops < MaxCodecOps
    /\ \/ \E t \in ObjectTypes, c \in Contents : PutObject(t, c)
       \/ \E w \in BOOLEAN, c \in Contents : HashObject(w, c)
       \/ \E h \in DOMAIN objs \cup {HexBase} : ReadObject(h)

SpecCodec == InitCodec /\ [][NextCodec]_vars

\* C1: an object written with Object::write_to_objects and read back with
\* Object::read has the type it was written with, the length of its content
\* as declared size, and delivers exactly its content up to end-of-stream.
RoundTrip ==
    last.op = "read" =>
        \A p \in puts :
            (p.wrote /\ HexEncode(p.hash) = last.hash) =>
                /\ last.rd.res = "Ok"
                /\ last.rd.object_type = p.object_type
                /\ last.rd.expected_size = ByteLen(p.content)
                /\ last.rd.content = p.content

RoundTripWitness ==
    /\ last.op = "read"
    /\ last.rd.res = "Ok"
    /\ \E p \in puts : p.wrote /\ HexEncode(p.hash) = last.hash /\ p.content = <<>>
                       /\ p.object_type = "Commit"

\* C2: the digest returned for a type and a content is the same whatever the
\* store holds, however often it is asked for and whether the object is
\* written or only hashed; a written object is the file at the path that
\* the digest names.
ContentAddressed ==
    /\ \A p, q \in puts :
          (p.object_type = q.object_type /\ p.content = q.content) => p.hash = q.hash
    /\ last.op \in {"put", "hash_w"} =>
          /\ HexEncode(last.hash) \in DOMAIN objs
          /\ inodes[objs[HexEncode(last.hash)]] =
                ZlibEncode(TypeName(last.object_type) \o <<SP>> \o Dec(ByteLen(last.content))
                           \o <<NUL>> \o last.content)

ContentAddressedWitness ==
    /\ last.op = "hash"
    /\ Cardinality(DOMAIN objs) = 1
    /\ \E p, q \in puts : /\ p.wrote /\ ~q.wrote
                          /\ p.object_type = q.object_type /\ p.content = q.content
                          /\ p.hash = last.hash

\* ------------------------------------------------------------- comparator
\* <[u8] as Ord>::cmp
RECURSIVE SliceCmp(_, _)
SliceCmp(x, y) ==
    IF x = <<>> /\ y = <<>> THEN "Equal"
    ELSE IF x = <<>> THEN "Less"
    ELSE IF y = <<>> THEN "Greater"
    ELSE IF Head(x) < Head(y) THEN "Less"
    ELSE IF Head(x) > Head(y) THEN "Greater"
    ELSE SliceCmp(Tail(x), Tail(y))

\* Option<u8>: None is -1, Some(c) is c
None == 0 - 1

\* <Option<u8> as Ord>::cmp
OptionCmp(c1, c2) == IF c1 < c2 THEN "Less" ELSE IF c1 > c2 THEN "Greater" ELSE "Equal"

\* impl From<&Metadata> for TreeEntryMode
ModeOf(meta) ==
    IF meta.is_dir THEN "Directory"
    ELSE IF meta.is_symlink THEN "SymbolicLink"
    ELSE IF meta.exec THEN "ExecutableFile"
    ELSE "RegularFile"

\* a child of a directory: a file with its content or a directory with its
\* children; tmp marks the file "temporary" of the current directory, whose
\* content is the inode tmpf
FsEntry(name, meta, content, children) ==
    [name |-> name, meta |-> meta, content |-> content, children |-> children, tmp |-> FALSE]

\* TreeEntryBytesBuilder::dir_entry
DirEntry(e) == [mode |-> ModeOf(e.meta), name |-> e.name, path |-> e, is_dir |-> e.meta.is_dir]

\* a comparator that orders by the plain name
CompareByName(a, b) == SliceCmp(a.name, b.name)

\* compare_tree_entry_bytes_builder
CompareTreeEntryBytesBuilder(a, b) ==
    LET afn == a.name
        bfn == b.name
        common_len == Min(Len(afn), Len(bfn))
        o == SliceCmp(SubSeq(afn, 1, common_len), SubSeq(bfn, 1, common_len))
        c1 == IF Len(afn) > common_len THEN afn[common_len + 1]
              ELSE IF a.is_dir THEN SLASH ELSE None
        c2 == IF Len(bfn) > common_len THEN bfn[common_len + 1]
              ELSE IF b.is_dir THEN SLASH ELSE None
    IN  IF o # "Equal" THEN o
        ELSE IF Len(afn) = Len(bfn) THEN "Equal"
        ELSE OptionCmp(c1, c2)

\* names are made of '.', '0' and 'a': one byte below '/', two above
NameBytes == {46, 48, 97}
CmpNames == SeqsUpTo(NameBytes, MaxNameLen) \ {<<>>}

Metas ==
    {[is_dir |-> d, is_symlink |-> l, exec |-> x] :
        d \in BOOLEAN, l \in BOOLEAN, x \in BOOLEAN} \ {m \in [is_dir : BOOLEAN, is_symlink : BOOLEAN, exec : BOOLEAN] : m.is_dir /\ m.is_symlink}

\* the comparator is applied to the two entries
Compare ==
    /\ cmpRes = "none"
    /\ cmpRes' = CompareTreeEntryBytesBuilder(cmpA, cmpB)
    /\ UNCHANGED <<diskVars, nops, puts, last, cmpA, cmpB, treeVars, commitVars, concVars>>

InitCmpSpec ==
    /\ InitDisk
    /\ \E na \in CmpNames, nb \in CmpNames, ma \in Metas, mb \in Metas :
          /\ cmpA = DirEntry(FsEntry(na, ma, <<>>, <<>>))
          /\ cmpB = DirEntry(FsEntry(nb, mb, <<>>, <<>>))
    /\ cmpRes = "none"
    /\ InitTree
    /\ InitCommit
    /\ InitConc
    /\ nops = 0
    /\ puts = {}
    /\ last = NoLast

NextCmp == Compare

SpecCmp == InitCmpSpec /\ [][NextCmp]_vars

\* the name, followed by '/' for a directory
RefKey(e) == IF e.is_dir THEN e.name \o <<SLASH>> ELSE e.name

\* C5: two entries of different names compare as their names do bytewise once
\* a '/' is appended to the name of a directory; so a file "a" is before a
\* file "a.", and a file "a." is before a directory "a".
CanonicalOrder ==
    (cmpRes # "none" /\ cmpA.name # cmpB.name) =>
        /\ cmpRes = SliceCmp(RefKey(cmpA), RefKey(cmpB))
        /\ (cmpA.name = <<97>> /\ ~cmpA.is_dir /\ cmpB.name = <<97, 46>> /\ ~cmpB.is_dir)
              => cmpRes = "Less"
        /\ (cmpA.name = <<97, 46>> /\ ~cmpA.is_dir /\ cmpB.name = <<97>> /\ cmpB.is_dir)
              => cmpRes = "Less"

CanonicalOrderWitness ==
    /\ cmpRes = "Less"
    /\ cmpA.name = <<97, 46>> /\ ~cmpA.is_dir
    /\ cmpB.name = <<97>> /\ cmpB.is_dir

\* --------------------------------------------------------- tree assembler
\* ".git", the file name of dot_git_path
MetaName == <<46, 103, 105, 116>>

RegularMeta == [is_dir |-> FALSE, is_symlink |-> FALSE, exec |-> FALSE]
ExecMeta == [is_dir |-> FALSE, is_symlink |-> FALSE, exec |-> TRUE]
DirMeta == [is_dir |-> TRUE, is_symlink |-> FALSE, exec |-> TRUE]

\* the file "temporary" of the current directory, as a directory entry
TmpEntry ==
    [FsEntry(<<116, 101, 109, 112, 111, 114, 97, 114, 121>>, RegularMeta, <<>>, <<>>)
        EXCEPT !.tmp = TRUE]

\* a skip rule that skips the metadata directory only if it is a directory
IsDotGitEntryDirOnly(b) == b.name = MetaName /\ b.is_dir

\* TreeEntryBytesBuilder::is_dot_git_entry
IsDotGitEntry(b) == b.name = MetaName

ModeString(mode) ==
    CASE mode = "RegularFile" -> <<49, 48, 48, 54, 52, 52>>
      [] mode = "ExecutableFile" -> <<49, 48, 48, 55, 53, 53>>
      [] mode = "SymbolicLink" -> <<49, 50, 48, 48, 48, 48>>
      [] mode = "Directory" -> <<48, 52, 48, 48, 48, 48>>

\* TreeEntryBytesBuilder::to_raw_bytes
ToRawBytes(b, hash) ==
    LET mode_string == IF b.mode = "Directory" THEN <<52, 48, 48, 48, 48>>
                       ELSE ModeString(b.mode)
    IN  mode_string \o <<SP>> \o b.name \o <<NUL>> \o <<hash>>

\* fs::read_dir: the children in the order the file system lists them
RECURSIVE Reverse(_)
Reverse(s) == IF s = <<>> THEN <<>> ELSE Append(Reverse(Tail(s)), Head(s))

Rotate(s, k) ==
    IF s = <<>> THEN s
    ELSE LET r == k % Len(s) IN SubSeq(s, r + 1, Len(s)) \o SubSeq(s, 1, r)

ReadDir(st, dir, isRoot, order) ==
    LET all == dir \o (IF isRoot /\ cwdSnap /\ st.tmp # 0 THEN <<TmpEntry>> ELSE <<>>)
        rot == Rotate(all, order.rot)
    IN  IF order.rev THEN Reverse(rot) ELSE rot

\* entries.sort_unstable_by(compare_tree_entry_bytes_builder)
RECURSIVE InsertSorted(_, _)
InsertSorted(sorted, b) ==
    IF sorted = <<>> THEN <<b>>
    ELSE IF CompareTreeEntryBytesBuilder(b, Head(sorted)) = "Less" THEN <<b>> \o sorted
    ELSE <<Head(sorted)>> \o InsertSorted(Tail(sorted), b)

RECURSIVE InsertAll(_, _)
InsertAll(sorted, s) ==
    IF s = <<>> THEN sorted ELSE InsertAll(InsertSorted(sorted, Head(s)), Tail(s))

\* a directory left in the order the file system listed it
KeepListingOrder(s) == s

SortEntries(s) == InsertAll(<<>>, s)

Builders(listing) == [i \in 1..Len(listing) |-> DirEntry(listing[i])]

\* Object::blob_from_file
BlobFromFile(st, e) ==
    IF e.tmp
    THEN IF st.tmp = 0
         THEN [ok |-> FALSE, obj |-> CursorObject("Blob", <<>>)]
         ELSE [ok |-> TRUE,
               obj |-> [object_type |-> "Blob", expected_size |-> ByteLen(st.ino[st.tmp]),
                        reader |-> [kind |-> "file", bytes |-> <<>>, ino |-> st.tmp]]]
    ELSE [ok |-> TRUE, obj |-> CursorObject("Blob", e.content)]

RECURSIVE WriteTreeFor(_, _, _, _)
RECURSIVE WriteEntries(_, _, _, _)

\* the loop of write_tree_for over the sorted entries
WriteEntries(st, entries, tree_object, order) ==
    IF entries = <<>> THEN [st |-> st, ok |-> TRUE, tree_object |-> tree_object]
    ELSE
    Bind(Head(entries), LAMBDA builder :
        IF IsDotGitEntry(builder)
        THEN WriteEntries(st, Tail(entries), tree_object, order)
        ELSE IF builder.is_dir
        THEN Bind(WriteTreeFor(st, builder.path.children, FALSE, order), LAMBDA r :
                 IF r.res = "Err" THEN [st |-> r.st, ok |-> FALSE, tree_object |-> tree_object]
                 ELSE IF r.res = "None" THEN WriteEntries(r.st, Tail(entries), tree_object, order)
                 ELSE WriteEntries(r.st, Tail(entries),
                                   tree_object \o ToRawBytes(builder, r.hash), order))
        ELSE Bind(BlobFromFile(st, builder.path), LAMBDA o :
                 IF ~o.ok THEN [st |-> st, ok |-> FALSE, tree_object |-> tree_object]
                 ELSE Bind(WriteToObjects(st, o.obj), LAMBDA w :
                     IF ~w.ok THEN [st |-> w.st, ok |-> FALSE, tree_object |-> tree_object]
                     ELSE WriteEntries(w.st, Tail(entries),
                                       tree_object \o ToRawBytes(builder, w.hash), order))))

\* a write_tree_for that writes a tree object for an empty directory too
WriteTreeForKeepsEmpty(st, dir, isRoot, order) ==
    Bind(WriteEntries(st, SortEntries(Builders(ReadDir(st, dir, isRoot, order))), <<>>, order),
         LAMBDA r :
        IF ~r.ok THEN [st |-> r.st, res |-> "Err", hash |-> 0]
        ELSE Bind(WriteToObjects(r.st, CursorObject("Tree", r.tree_object)), LAMBDA w :
                 [st |-> w.st, res |-> "Some", hash |-> w.hash]))

\* write_tree_for on the directory dir
WriteTreeFor(st, dir, isRoot, order) ==
    Bind(WriteEntries(st, SortEntries(Builders(ReadDir(st, dir, isRoot, order))), <<>>, order),
         LAMBDA r :
        IF ~r.ok THEN [st |-> r.st, res |-> "Err", hash |-> 0]
        ELSE IF r.tree_object = <<>> THEN [st |-> r.st, res |-> "None", hash |-> 0]
        ELSE Bind(WriteToObjects(r.st, CursorObject("Tree", r.tree_object)), LAMBDA w :
                 IF ~w.ok THEN [st |-> w.st, res |-> "Err", hash |-> 0]
                 ELSE [st |-> w.st, res |-> "Some", hash |-> w.hash]))

\* ------------------------------------------------------------ tree decoder
\* impl From<&str> for TreeEntryMode
ParseMode(m) ==
    CASE m = <<49, 48, 48, 54, 52, 52>> -> "RegularFile"
      [] m = <<49, 48, 48, 55, 53, 53>> -> "ExecutableFile"
      [] m = <<49, 50, 48, 48, 48, 48>> -> "SymbolicLink"
      [] m = <<48, 52, 48, 48, 48, 48>> \/ m = <<52, 48, 48, 48, 48>> -> "Directory"
      [] OTHER -> "panic"

\* the loop of build_tree over the content of a tree object
RECURSIVE BuildEntries(_, _)
BuildEntries(content, tree_entries) ==
    IF content = <<>> THEN [res |-> "Ok", entries |-> tree_entries]
    ELSE
    LET k == IndexOf(content, NUL)
        rest == SubSeq(content, k + 1, Len(content))
        sha_buffer == TakeBytes(rest, DigestLen)
        header == SubSeq(content, 1, k - 1)
        sp == IndexOf(header, SP)
        mode == SubSeq(header, 1, sp - 1)
        name == SubSeq(header, sp + 1, Len(header))
        hex == IF Len(sha_buffer) = 1 THEN HexEncode(sha_buffer[1]) ELSE 0
    IN  IF k = 0 \/ ByteLen(sha_buffer) < DigestLen THEN [res |-> "Err", entries |-> <<>>]
        ELSE IF ~IsUtf8(header) \/ sp = 0 THEN [res |-> "Err", entries |-> <<>>]
        ELSE IF ParseMode(mode) = "panic" THEN [res |-> "Panic", entries |-> <<>>]
        ELSE BuildEntries(SubSeq(rest, Len(sha_buffer) + 1, Len(rest)),
                          Append(tree_entries,
                                 [mode |-> ParseMode(mode), name |-> name, sha |-> hex]))

\* build_tree
BuildTree(st, h) ==
    LET object == ObjectRead(st, h)
    IN  IF object.res # "Ok" THEN [res |-> object.res, entries |-> <<>>]
        ELSE IF object.object_type # "Tree" THEN [res |-> "Err", entries |-> <<>>]
        ELSE BuildEntries(object.content, <<>>)

\* ---------------------------------------------------- snapshotted directories
WdNames == <<<<97>>, <<97, 46>>, MetaName>>
FileContents == {<<>>, <<104>>}
FileEntries(name) ==
    IF name = MetaName THEN {FsEntry(name, RegularMeta, <<104>>, <<>>)}
    ELSE {FsEntry(name, RegularMeta, <<>>, <<>>), FsEntry(name, ExecMeta, <<104>>, <<>>)}

RECURSIVE NodeCount(_)
NodeCount(dir) ==
    IF dir = <<>> THEN 0 ELSE 1 + NodeCount(Head(dir).children) + NodeCount(Tail(dir))

\* the directories with children named from names and at most budget nodes
RECURSIVE DirSet(_, _)
DirSet(names, budget) ==
    IF names = <<>> THEN {<<>>}
    ELSE IF budget = 0 THEN {<<>>}
    ELSE
    LET nm == Head(names)
        subs == DirSet(WdNames, budget - 1)
    IN  DirSet(Tail(names), budget)
        \cup {<<e>> \o r : e \in FileEntries(nm), r \in DirSet(Tail(names), budget - 1)}
        \cup UNION {{<<FsEntry(nm, DirMeta, <<>>, sub)>> \o r :
                        r \in DirSet(Tail(names), budget - 1 - NodeCount(sub))} : sub \in subs}

ListOrders == [rot : 0..MaxRot, rev : BOOLEAN]

StoreView(st) == [h \in DOMAIN st.objs |-> st.ino[st.objs[h]]]

\* write_tree_for on the snapshotted directory
WriteTree(order) ==
    /\ \E r \in {WriteTreeFor(St, wd, TRUE, order)} :
          /\ SetSt(r.st)
          /\ last' = [NoLast EXCEPT !.op = "write_tree", !.ok = (r.res # "Err"), !.hash = r.hash]
          /\ runs' = Append(runs, [res |-> r.res, hash |-> r.hash,
                                   root |-> ReadDir(St, wd, TRUE, [rot |-> 0, rev |-> FALSE]),
                                   order |-> order,
                                   before |-> StoreView(St), after |-> StoreView(r.st)])
    /\ nops' = nops + 1
    /\ UNCHANGED <<puts, cmpVars, wd, cwdSnap, commitVars, concVars>>

\* the store after init, and a file "temporary" of the user's in the
\* current directory
\* what the user's file "temporary" holds
TmpContent == <<104>>

InitDiskTmp ==
    /\ inodes = <<TmpContent>>
    /\ tmpf = 1
    /\ objs = <<>>
    /\ fanout = {}
    /\ sha = <<>>

InitTreeSpec ==
    /\ \/ InitDisk /\ cwdSnap = TRUE
       \/ InitDiskTmp /\ cwdSnap \in BOOLEAN
    /\ InitCmp
    /\ InitCommit
    /\ InitConc
    /\ wd \in DirSet(WdNames, MaxNodes)
    /\ runs = <<>>
    /\ nops = 0
    /\ puts = {}
    /\ last = NoLast

NextTree ==
    /\ nops < MaxTreeOps
    /\ \/ \E order \in ListOrders : WriteTree(order)
       \/ \E c \in FileContents : HashObject(TRUE, c)

SpecTree == InitTreeSpec /\ [][NextTree]_vars

\* C6: two runs of write_tree_for on the same directory, whose children the
\* file system may list in different orders and between which the store may
\* have grown, return the same digest, and the later run leaves the store
\* as it found it.
AssembleIdempotent ==
    \A i, j \in 1..Len(runs) :
        (i < j /\ runs[i].root = runs[j].root) =>
            /\ runs[j].res = runs[i].res
            /\ runs[j].hash = runs[i].hash
            /\ runs[j].after = runs[j].before

AssembleIdempotentWitness ==
    /\ Len(runs) = 2
    /\ runs[1].res = "Some"
    /\ runs[1].root = runs[2].root
    /\ runs[1].order # runs[2].order
    /\ Len(runs[1].root) >= 2
    /\ runs[2].hash = runs[1].hash

\* whether dir holds a file at some depth; a directory named as the metadata
\* directory is not looked into, and a file of that name counts only if
\* countMetaFiles
RECURSIVE HasFile(_, _)
HasFile(dir, countMetaFiles) ==
    \E i \in 1..Len(dir) :
        IF dir[i].meta.is_dir
        THEN dir[i].name # MetaName /\ HasFile(dir[i].children, countMetaFiles)
        ELSE countMetaFiles \/ dir[i].name # MetaName

\* the stored tree h of dir has an entry for a subdirectory exactly if the
\* subdirectory holds a file, and so on in the subdirectories
RECURSIVE TreeShows(_, _, _, _)
TreeShows(st, h, dir, countMetaFiles) ==
    LET t == BuildTree(st, h)
    IN  /\ t.res = "Ok"
        /\ \A i \in 1..Len(dir) :
              (dir[i].meta.is_dir /\ dir[i].name # MetaName) =>
                  LET idx == {j \in 1..Len(t.entries) : t.entries[j].name = dir[i].name}
                  IN  /\ (idx # {}) <=> HasFile(dir[i].children, countMetaFiles)
                      /\ \A j \in idx :
                            /\ t.entries[j].mode = "Directory"
                            /\ TreeShows(st, t.entries[j].sha, dir[i].children, countMetaFiles)

NoEmptyTree(st) ==
    \A h \in DOMAIN st.objs :
        LET o == ObjectRead(st, h) IN o.object_type = "Tree" => o.content # <<>>

Elision(countMetaFiles) ==
    last.op = "write_tree" =>
        LET r == runs[Len(runs)]
        IN  /\ ~HasFile(r.root, countMetaFiles) => (r.res = "None" /\ r.after = r.before)
            /\ HasFile(r.root, countMetaFiles) => r.res # "None"
            /\ r.res = "Some" => TreeShows(St, HexEncode(r.hash), r.root, countMetaFiles)
            /\ NoEmptyTree(St)

\* C7 as stated: write_tree_for returns None and stores no tree for a
\* directory without a file at any depth, and the tree of its parent has no
\* entry for it; a directory with a file at some depth is not elided.
ElisionAsStated == Elision(TRUE)

\* C7 as amended: the same, where a file named as the metadata directory
\* does not count as a file.
ElisionAmended == Elision(FALSE)

ElisionWitness ==
    /\ last.op = "write_tree"
    /\ runs[Len(runs)].res = "Some"
    /\ \E i, j \in 1..Len(wd) :
          /\ wd[i].meta.is_dir /\ wd[i].children = <<>>
          /\ wd[j].meta.is_dir /\ Len(wd[j].children) = 1
          /\ ~wd[j].children[1].meta.is_dir /\ wd[j].children[1].content = <<>>
          /\ wd[j].children[1].name # MetaName

\* ---------------------------------------------------------- commit builder
RefPrefix == <<114, 101, 102, 58, 32>>
TreeWord == <<116, 114, 101, 101, 32>>
ParentWord == <<112, 97, 114, 101, 110, 116, 32>>
AuthorWord == <<97, 117, 116, 104, 111, 114, 32, 80, 101, 114, 114, 121, 32, 72, 101, 114, 116, 108, 101, 114, 32, 60, 112, 101, 114, 114, 121, 64, 104, 101, 114, 116, 108, 101, 114, 46, 111, 114, 103, 62, 32>>
CommitterWord == <<99, 111, 109, 109, 105, 116, 116, 101, 114, 32, 80, 101, 114, 114, 121, 32, 72, 101, 114, 116, 108, 101, 114, 32, 60, 112, 101, 114, 114, 121, 64, 104, 101, 114, 116, 108, 101, 114, 46, 111, 114, 103, 62, 32>>
ZoneWord == <<32, 43, 48, 48, 48, 48>>
Messages == {<<109>>}

\* str::strip_prefix: <<TRUE, rest>> or <<FALSE>>
StripPrefix(s, prefix) ==
    IF Len(s) >= Len(prefix) /\ SubSeq(s, 1, Len(prefix)) = prefix
    THEN [some |-> TRUE, rest |-> SubSeq(s, Len(prefix) + 1, Len(s))]
    ELSE [some |-> FALSE, rest |-> <<>>]

IsSpace(b) == b \in {9, 10, 11, 12, 13, SP}

\* str::trim
RECURSIVE TrimStart(_)
TrimStart(s) == IF s # <<>> /\ IsSpace(Head(s)) THEN TrimStart(Tail(s)) ELSE s

RECURSIVE TrimEnd(_)
TrimEnd(s) ==
    IF s # <<>> /\ IsSpace(s[Len(s)]) THEN TrimEnd(SubSeq(s, 1, Len(s) - 1)) ELSE s

Trim(s) == TrimEnd(TrimStart(s))

\* the text commit_tree renders
CommitText(message, tree_hash, parent, time) ==
    TreeWord \o <<tree_hash, LF>>
    \o (IF parent.some THEN ParentWord \o parent.hash \o <<LF>> ELSE <<>>)
    \o AuthorWord \o Dec(time) \o ZoneWord \o <<LF>>
    \o CommitterWord \o Dec(time) \o ZoneWord \o <<LF>>
    \o <<LF>>
    \o message \o <<LF>>

\* commit_tree
CommitTree(st, message, tree_hash, parent, time) ==
    Bind(WriteToObjects(st, CursorObject("Commit", CommitText(message, tree_hash, parent, time))),
         LAMBDA w :
        IF ~w.ok THEN [st |-> w.st, res |-> "Err", hash |-> 0]
        ELSE [st |-> w.st, res |-> "Some", hash |-> w.hash])

\* the branch file that a path under root names
RefRoot(root) == IF gitIsCwd THEN "git" ELSE root

\* a commit that assembles the tree before it looks at HEAD
CommitOutcomeAssemblesFirst(st, message, order, time) ==
    Bind(WriteTreeFor(st, wd, TRUE, order), LAMBDA t :
        [st |-> t.st, res |-> "Err", hash |-> 0, tree |-> 0,
         parent |-> [some |-> FALSE, hash |-> <<>>], wrote |-> FALSE])

\* commit: what it returns, the disk it leaves and whether it wrote the
\* branch file
CommitOutcome(st, message, order, time) ==
    LET head_ref == StripPrefix(head, RefPrefix)
        parent_file == refs[RefRoot("cwd")]
        parent == [some |-> TRUE, hash |-> Trim(parent_file.bytes)]
        none == [some |-> FALSE, hash |-> <<>>]
    IN  IF ~head_ref.some
        THEN [st |-> st, res |-> "Err", hash |-> 0, tree |-> 0, parent |-> none, wrote |-> FALSE]
        ELSE IF ~parent_file.exists
        THEN [st |-> st, res |-> "Err", hash |-> 0, tree |-> 0, parent |-> none, wrote |-> FALSE]
        ELSE
        Bind(WriteTreeFor(st, wd, TRUE, order), LAMBDA t :
            IF t.res = "Err"
            THEN [st |-> t.st, res |-> "Err", hash |-> 0, tree |-> 0, parent |-> parent, wrote |-> FALSE]
            ELSE IF t.res = "None"
            THEN [st |-> t.st, res |-> "None", hash |-> 0, tree |-> 0, parent |-> parent, wrote |-> FALSE]
            ELSE
            Bind(CommitTree(t.st, message, HexEncode(t.hash), parent, time), LAMBDA c :
                IF c.res = "Err"
                THEN [st |-> c.st, res |-> "Err", hash |-> 0, tree |-> t.hash, parent |-> parent,
                      wrote |-> FALSE]
                ELSE IF ~headsDir
                THEN [st |-> c.st, res |-> "Err", hash |-> c.hash, tree |-> t.hash, parent |-> parent,
                      wrote |-> FALSE]
                ELSE [st |-> c.st, res |-> "Some", hash |-> c.hash, tree |-> t.hash, parent |-> parent,
                      wrote |-> TRUE]))

\* commit of the snapshotted directory
Commit(message, order, time) ==
    /\ \E r \in {CommitOutcome(St, message, order, time)} :
          /\ SetSt(r.st)
          /\ refs' = IF r.wrote
                     THEN [refs EXCEPT !["git"] = [exists |-> TRUE, bytes |-> <<HexEncode(r.hash)>>]]
                     ELSE refs
          /\ last' = [NoLast EXCEPT !.op = "commit", !.ok = (r.res # "Err"), !.hash = r.hash]
          /\ commits' = Append(commits,
                 [res |-> r.res, hash |-> r.hash, tree |-> r.tree, time |-> time,
                  root |-> ReadDir(St, wd, TRUE, [rot |-> 0, rev |-> FALSE]),
                  before |-> StoreView(St), after |-> StoreView(r.st),
                  refsBefore |-> refs, headBefore |-> head])
    /\ clock' = time
    /\ nops' = nops + 1
    /\ UNCHANGED <<puts, cmpVars, treeVars, head, gitIsCwd, headsDir, concVars>>

\* a HEAD that holds a digest instead of the name of a branch
DetachedHead == <<HexBase + 1, LF>>

\* a commit object that git made earlier, and a branch file that names it
ForeignCommit == TypeName("Commit") \o <<SP>> \o Dec(1) \o <<NUL, 120>>
ForeignRef == [exists |-> TRUE, bytes |-> <<HexBase + 1, LF>>]

Init ==
    /\ inodes \in {<<>>, <<<<104>>>>}
    /\ tmpf = Len(inodes)
    /\ objs = <<>>
    /\ fanout = {}
    /\ sha = <<ForeignCommit>>
    /\ InitCmp
    /\ wd \in DirSet(WdNames, MaxCommitNodes)
    /\ cwdSnap = TRUE
    /\ runs = <<>>
    /\ head \in {SymbolicHead, DetachedHead}
    /\ gitIsCwd \in BOOLEAN
    /\ headsDir \in BOOLEAN
    /\ refs \in [git : {NoFile, ForeignRef}, cwd : {NoFile, ForeignRef}]
    /\ refs["git"].exists => headsDir
    /\ gitIsCwd => ~refs["cwd"].exists
    /\ clock = 1
    /\ commits = <<>>
    /\ InitConc
    /\ nops = 0
    /\ puts = {}
    /\ last = NoLast

Next ==
    /\ nops < MaxCommitOps
    /\ \/ \E m \in Messages, order \in ListOrders, t \in clock..MaxClock : Commit(m, order, t)
       \/ \E order \in ListOrders : WriteTree(order)

Spec == Init /\ [][Next]_vars

\* the text of a stored commit has a parent line, and the digest it names
HasParentLine(text) ==
    /\ Len(text) >= Len(TreeWord) + 2 + Len(ParentWord)
    /\ SubSeq(text, Len(TreeWord) + 3, Len(TreeWord) + 2 + Len(ParentWord)) = ParentWord

ParentOfText(text) ==
    LET after == SubSeq(text, Len(TreeWord) + 3 + Len(ParentWord), Len(text))
    IN  SubSeq(after, 1, IndexOf(after, LF) - 1)

IsSymbolic(h) == StripPrefix(h, RefPrefix).some

\* C8: a commit of a directory that assembles to None, HEAD naming a branch,
\* returns Ok(None), stores nothing and leaves the branch file and HEAD as
\* they were.
NothingToCommit ==
    last.op = "commit" =>
        LET c == commits[Len(commits)]
        IN  (IsSymbolic(c.headBefore) /\ ~HasFile(c.root, FALSE)) =>
                /\ c.res = "None"
                /\ c.after = c.before
                /\ refs = c.refsBefore
                /\ head = c.headBefore

\* C9: two commits in sequence of the same directory holding a file, HEAD
\* naming a branch, make two commit objects of different digests and of the
\* same tree; the second names the first as its parent and the branch file
\* holds the digest of the second.
CommitTwice ==
    (last.op = "commit" /\ Len(commits) >= 2) =>
        LET a == commits[Len(commits) - 1]
            b == commits[Len(commits)]
            text == ObjectRead(St, HexEncode(b.hash)).content
        IN  (IsSymbolic(a.headBefore) /\ a.root = b.root /\ HasFile(a.root, FALSE)) =>
                /\ a.res = "Some" /\ b.res = "Some"
                /\ a.hash # b.hash
                /\ a.tree = b.tree
                /\ HasParentLine(text) /\ ParentOfText(text) = <<HexEncode(a.hash)>>
                /\ refs["git"] = [exists |-> TRUE, bytes |-> <<HexEncode(b.hash)>>]

\* C10: the first commit of a directory holding a file, HEAD naming a branch
\* whose file does not exist yet, succeeds; the commit object it stores has
\* no parent line, the branch file holds its digest and HEAD is unchanged.
FirstCommit ==
    last.op = "commit" =>
        LET c == commits[Len(commits)]
            o == ObjectRead(St, HexEncode(c.hash))
        IN  (IsSymbolic(c.headBefore) /\ ~c.refsBefore["git"].exists /\ HasFile(c.root, FALSE)) =>
                /\ c.res = "Some"
                /\ o.res = "Ok" /\ o.object_type = "Commit" /\ ~HasParentLine(o.content)
                /\ refs["git"] = [exists |-> TRUE, bytes |-> <<HexEncode(c.hash)>>]
                /\ head = c.headBefore

\* --------------------------------------------------------- concurrent puts
\* Two processes each run Object::write_to_objects, or Git::hash_object with
\* write = true, in the same current directory. Each system call is a step.
ConcContents == SeqsUpTo({104}, MaxLen)

\* the inodes that the processes ps hold open
OpenFds(ps) == {ps[p].fd : p \in {q \in Procs : ps[q].pc \in {"opened", "streaming"}}}

\* std::fs::File::create("temporary"), and the encoder set up on the file
Create(p, op, t, c) ==
    /\ procs[p].pc = "idle"
    /\ op = "hash_object" => t = "Blob"
    /\ LET s1 == FsCreate(St)
           env == IF op = "hash_object"
                  THEN TypeName("Blob") \o <<SP>> \o Dec(ByteLen(c)) \o <<NUL>> \o c
                  ELSE Envelope(s1, CursorObject(t, c))
       IN  /\ SetSt(s1)
           /\ procs' = [procs EXCEPT ![p] =
                  [Idle EXCEPT !.pc = "opened", !.op = op, !.object_type = t, !.content = c,
                               !.fd = s1.tmp, !.stream = ZlibEncode(env)]]
    /\ UNCHANGED <<nops, puts, last, cmpVars, treeVars, commitVars, jobs>>

\* write!(writer, "{} {}\0", ..) and the copy of the content: the encoder
\* hands the head of its stream to the file
WriteHead(p) ==
    /\ procs[p].pc = "opened"
    /\ SetSt(FsWrite(St, procs[p].fd, 0, SubSeq(procs[p].stream, 1, 2)))
    /\ procs' = [procs EXCEPT ![p].pc = "streaming", ![p].off = 2]
    /\ UNCHANGED <<nops, puts, last, cmpVars, treeVars, commitVars, jobs>>

\* writer.writer.finish() writes the rest of the stream at the offset of this
\* process's descriptor; the file is closed and the digest finalized
Finish(p) ==
    /\ procs[p].pc = "streaming"
    /\ LET me == procs[p]
           env == SubSeq(me.stream, 3, Len(me.stream) - 2)
           s1 == FsWrite(St, me.fd, me.off, SubSeq(me.stream, me.off + 1, Len(me.stream)))
           s2 == [s1 EXCEPT !.sha = Sha1Reg(s1.sha, env)]
           ps == [procs EXCEPT ![p].pc = "written", ![p].fd = 0, ![p].off = Len(me.stream),
                               ![p].hash = Sha1(s1.sha, env)]
       IN  /\ SetSt(Gc(s2, OpenFds(ps)))
           /\ procs' = ps
    /\ UNCHANGED <<nops, puts, last, cmpVars, treeVars, commitVars, jobs>>

\* fs::create_dir_all of the fan-out directory
Mkdir(p) ==
    /\ procs[p].pc = "written"
    /\ SetSt(FsMkdir(St, HexEncode(procs[p].hash)))
    /\ procs' = [procs EXCEPT ![p].pc = "dir"]
    /\ UNCHANGED <<nops, puts, last, cmpVars, treeVars, commitVars, jobs>>

\* fs::rename("temporary", ..): an error when no file has that name
Rename(p) ==
    /\ procs[p].pc = "dir"
    /\ IF tmpf = 0
       THEN /\ procs' = [procs EXCEPT ![p].pc = "done", ![p].res = "Err"]
            /\ UNCHANGED diskVars
       ELSE /\ procs' = [procs EXCEPT ![p].pc = "done", ![p].res = "Ok"]
            /\ SetSt(Gc(FsRename(St, HexEncode(procs[p].hash)), OpenFds(procs')))
    /\ UNCHANGED <<nops, puts, last, cmpVars, treeVars, commitVars, jobs>>

InitConcSpec ==
    /\ InitDisk
    /\ InitCmp
    /\ InitTree
    /\ InitCommit
    /\ InitConc
    /\ nops = 0
    /\ puts = {}
    /\ last = NoLast

NextConc ==
    \/ \E p \in Procs, t \in ObjectTypes, c \in ConcContents : Create(p, "write_to_objects", t, c)
    \/ \E p \in Procs, c \in ConcContents : Create(p, "hash_object", "Blob", c)
    \/ \E p \in Procs : WriteHead(p)
    \/ \E p \in Procs : Finish(p)
    \/ \E p \in Procs : Mkdir(p)
    \/ \E p \in Procs : Rename(p)
    \/ \E h \in DOMAIN objs : nops < MaxConcReads /\ ReadObject(h)

SpecConc == InitConcSpec /\ [][NextConc]_vars

\* the envelope whose digest the hex digest h is
EnvelopeHashedTo(h) == sha[h - HexBase]

\* C3: in every state that interleaved puts reach, a file at the object path
\* of a digest holds the complete encoded envelope of the object with that
\* digest, and a read of such a path yields that object, never a partial one
\* or another one.
StoreIntegrity ==
    /\ \A h \in DOMAIN objs :
          /\ h - HexBase \in 1..Len(sha)
          /\ inodes[objs[h]] = ZlibEncode(EnvelopeHashedTo(h))
    /\ last.op = "read" =>
          /\ last.rd.res = "Ok"
          /\ Header(last.rd.object_type, last.rd.expected_size) \o last.rd.content
               = EnvelopeHashedTo(last.hash)

\* C4: when two processes have run put concurrently, on the same content or
\* on different contents, both have returned a digest, reading each digest
\* yields the type and content put under it, and there are as many object
\* files as distinct digests.
WritersTolerated ==
    (\A p \in Procs : procs[p].pc = "done") =>
        /\ \A p \in Procs :
              /\ procs[p].res = "Ok"
              /\ LET o == ObjectRead(St, HexEncode(procs[p].hash))
                 IN  /\ o.res = "Ok"
                     /\ o.object_type = procs[p].object_type
                     /\ o.content = procs[p].content
        /\ Cardinality(DOMAIN objs) = Cardinality({procs[p].hash : p \in Procs})

\* ------------------------------------------------------ concurrent commits
\* Two processes each run commit on the same repository, whose branch has a
\* tip, on a directory that holds one file. Each system call is a step.

\* std::fs::read_to_string(dot_git_path.join("HEAD")) and strip_prefix
ReadHead(p, message) ==
    /\ jobs[p].stage = "none"
    /\ jobs' = [jobs EXCEPT ![p] =
          IF StripPrefix(head, RefPrefix).some
          THEN [NoJob EXCEPT !.stage = "head", !.message = message]
          ELSE [NoJob EXCEPT !.stage = "done", !.message = message, !.res = "Err"]]
    /\ UNCHANGED <<diskVars, nops, puts, last, cmpVars, treeVars, commitVars, procs>>

\* std::fs::read_to_string(".git/{head_ref}") and trim
ReadRef(p) ==
    /\ jobs[p].stage = "head"
    /\ jobs' = [jobs EXCEPT ![p] =
          IF refs[RefRoot("cwd")].exists
          THEN [jobs[p] EXCEPT !.stage = "blob", !.parent = Trim(refs[RefRoot("cwd")].bytes)]
          ELSE [jobs[p] EXCEPT !.stage = "done", !.res = "Err"]]
    /\ UNCHANGED <<diskVars, nops, puts, last, cmpVars, treeVars, commitVars, procs>>

\* the object that process p writes next: the blob of the file, the tree of
\* the directory, the commit
JobObject(p) ==
    CASE jobs[p].stage = "blob" -> CursorObject("Blob", wd[1].content)
      [] jobs[p].stage = "tree" ->
            CursorObject("Tree", ToRawBytes(DirEntry(wd[1]), jobs[p].blob))
      [] jobs[p].stage = "commit" ->
            CursorObject("Commit",
                CommitText(jobs[p].message, HexEncode(jobs[p].tree),
                           [some |-> TRUE, hash |-> jobs[p].parent], clock))

\* write_to_objects is entered for the next object
JobCreate(p) ==
    /\ jobs[p].stage \in {"blob", "tree", "commit"}
    /\ Create(p, "write_to_objects", JobObject(p).object_type, JobObject(p).reader.bytes)

\* write_to_objects has returned: on an error commit returns it, else it
\* goes on with the digest
Returned(p) ==
    /\ jobs[p].stage \in {"blob", "tree", "commit"}
    /\ procs[p].pc = "done"
    /\ jobs' = [jobs EXCEPT ![p] =
          IF procs[p].res = "Err" THEN [jobs[p] EXCEPT !.stage = "done", !.res = "Err"]
          ELSE CASE jobs[p].stage = "blob" ->
                      [jobs[p] EXCEPT !.stage = "tree", !.blob = procs[p].hash]
                 [] jobs[p].stage = "tree" ->
                      [jobs[p] EXCEPT !.stage = "commit", !.tree = procs[p].hash]
                 [] jobs[p].stage = "commit" ->
                      [jobs[p] EXCEPT !.stage = "ref", !.commit = procs[p].hash]]
    /\ procs' = [procs EXCEPT ![p] = Idle]
    /\ UNCHANGED <<diskVars, nops, puts, last, cmpVars, treeVars, commitVars>>

\* std::fs::write(dot_git_path.join(head_ref), ..) opens the branch file,
\* which truncates it
RefCreate(p) ==
    /\ jobs[p].stage = "ref"
    /\ IF headsDir
       THEN /\ refs' = [refs EXCEPT !["git"] = [exists |-> TRUE, bytes |-> <<>>]]
            /\ jobs' = [jobs EXCEPT ![p].stage = "refw", ![p].wrote = TRUE]
       ELSE /\ refs' = refs
            /\ jobs' = [jobs EXCEPT ![p].stage = "done", ![p].res = "Err"]
    /\ UNCHANGED <<diskVars, nops, puts, last, cmpVars, treeVars, head, gitIsCwd, headsDir,
                   clock, commits, procs>>

\* and writes the hex digest of the commit into it
RefWrite(p) ==
    /\ jobs[p].stage = "refw"
    /\ refs' = [refs EXCEPT !["git"] = [exists |-> TRUE, bytes |-> <<HexEncode(jobs[p].commit)>>]]
    /\ jobs' = [jobs EXCEPT ![p].stage = "done", ![p].res = "Some"]
    /\ UNCHANGED <<diskVars, nops, puts, last, cmpVars, treeVars, head, gitIsCwd, headsDir,
                   clock, commits, procs>>

InitRace ==
    /\ inodes = <<>>
    /\ tmpf = 0
    /\ objs = <<>>
    /\ fanout = {}
    /\ sha = <<ForeignCommit>>
    /\ InitCmp
    /\ wd = <<FsEntry(<<97>>, RegularMeta, <<104>>, <<>>)>>
    /\ cwdSnap = FALSE
    /\ runs = <<>>
    /\ head = SymbolicHead
    /\ gitIsCwd = TRUE
    /\ headsDir = TRUE
    /\ refs = [git |-> ForeignRef, cwd |-> NoFile]
    /\ clock = 1
    /\ commits = <<>>
    /\ InitConc
    /\ nops = 0
    /\ puts = {}
    /\ last = NoLast

NextRace ==
    \/ \E p \in Procs, m \in {<<109>>, <<110>>} : ReadHead(p, m)
    \/ \E p \in Procs : ReadRef(p)
    \/ \E p \in Procs : JobCreate(p)
    \/ \E p \in Procs : WriteHead(p)
    \/ \E p \in Procs : Finish(p)
    \/ \E p \in Procs : Mkdir(p)
    \/ \E p \in Procs : Rename(p)
    \/ \E p \in Procs : Returned(p)
    \/ \E p \in Procs : RefCreate(p)
    \/ \E p \in Procs : RefWrite(p)

SpecRace == InitRace /\ [][NextRace]_vars

\* the hex digest h names a commit object that is completely stored
StoredCommit(h) ==
    /\ h \in DOMAIN objs
    /\ inodes[objs[h]] = ZlibEncode(EnvelopeHashedTo(h))
    /\ ObjectRead(St, h).res = "Ok"
    /\ ObjectRead(St, h).object_type = "Commit"

\* C11: in every state that commits running in sequence or interleaved
\* reach, the branch file holds what it held before the first commit or the
\* digest of a commit object that is completely stored, and a commit that
\* returned an error has not written the branch file. The branch file is
\* not judged while a process has opened it and not yet written it.
BranchPointerValid ==
    /\ \/ refs["git"] = ForeignRef
       \/ \E p \in Procs : jobs[p].stage = "refw"
       \/ /\ refs["git"].exists
          /\ Len(refs["git"].bytes) = 1
          /\ IsHex(refs["git"].bytes[1])
          /\ StoredCommit(refs["git"].bytes[1])
    /\ \A p \in Procs : jobs[p].res = "Err" => ~jobs[p].wrote

\* C12: a commit called while HEAD does not start with "ref: " returns an
\* error and leaves every file of the store, the temporary file, the branch
\* files and HEAD as they were.
DetachedHeadRefused ==
    [][(last'.op = "commit" /\ ~IsSymbolic(head)) =>
          /\ ~last'.ok
          /\ UNCHANGED <<inodes, tmpf, objs, fanout, refs, head>>]_vars

DetachedHeadRefusedWitness ==
    /\ last.op = "commit"
    /\ ~last.ok
    /\ ~IsSymbolic(head)
    /\ HasFile(wd, FALSE)
    /\ refs["git"].exists
    /\ headsDir

\* ------------------------------------------- reads of foreign object files
\* Git::cat_file: what it returns and what it has written to its writer
CatFile(st, h) ==
    IF h \notin DOMAIN st.objs THEN [res |-> "Err", out |-> <<>>]
    ELSE
    LET z == ZlibDecode(st.ino[st.objs[h]])
        k == IndexOf(z.data, NUL)
        header == SubSeq(z.data, 1, k - 1)
        sp == IndexOf(header, SP)
        kind == SubSeq(header, 1, sp - 1)
        size == SubSeq(header, sp + 1, Len(header))
    IN  IF k = 0 THEN [res |-> "Err", out |-> <<>>]
        ELSE IF ~IsUtf8(header) THEN [res |-> "Err", out |-> <<>>]
        ELSE IF sp = 0 THEN [res |-> "Err", out |-> <<>>]
        ELSE IF kind \notin {TypeName("Blob"), TypeName("Commit")} THEN [res |-> "Err", out |-> <<>>]
        ELSE IF ~ParsesU64(size) THEN [res |-> "Err", out |-> <<>>]
        ELSE Bind(TakeBytes(SubSeq(z.data, k + 1, Len(z.data)), ParseU64(size)), LAMBDA out :
                 IF ByteLen(out) # ParseU64(size) THEN [res |-> "Err", out |-> out]
                 ELSE [res |-> "Ok", out |-> out])

\* cat_file of a hex digest
CatFileObject(h) ==
    /\ \E r \in {CatFile(St, h)} :
          last' = [NoLast EXCEPT !.op = "cat_file", !.hash = h, !.ok = (r.res = "Ok"),
                                 !.content = r.out]
    /\ nops' = nops + 1
    /\ UNCHANGED <<diskVars, puts, cmpVars, treeVars, commitVars, concVars>>

\* build_tree of a hex digest
BuildTreeObject(h) ==
    /\ last' = [NoLast EXCEPT !.op = "build_tree", !.hash = h, !.bt = BuildTree(St, h)]
    /\ nops' = nops + 1
    /\ UNCHANGED <<diskVars, puts, cmpVars, treeVars, commitVars, concVars>>

\* The streams of object files that a foreign writer, or a writer that was
\* cut short, has left in the store: a type name or another word, a space
\* or none, a size or another word, a nul or none, and a body.
ForeignStreams ==
    {k \o sp \o sz \o n \o b :
        k \in {TypeName("Blob"), TypeName("Tree"), TypeName("Commit"), <<120>>, <<200>>},
        sp \in {<<>>, <<SP>>},
        sz \in {<<>>, <<48>>, <<49>>, <<50>>, <<45, 49>>, <<43, 49>>, <<120>>},
        n \in {<<>>, <<NUL>>},
        b \in SeqsUpTo({NUL, 104}, MaxLen)}

\* Tree bodies: entries with a known or an unknown mode, with or without the
\* space and the nul, and a last entry whose digest may be cut short. The
\* 20 bytes of a digest here are neither nul nor UTF-8.
ForeignModes == {<<49, 48, 48, 54, 52, 52>>, <<52, 48, 48, 48, 48>>, <<49>>}
ForeignEntries ==
    {m \o sp \o <<97>> \o n \o <<DigestBase + 2>> :
        m \in ForeignModes, sp \in {<<>>, <<SP>>}, n \in {<<>>, <<NUL>>}}
RECURSIVE EntrySeqs(_)
EntrySeqs(n) ==
    IF n = 0 THEN {<<>>}
    ELSE LET shorter == EntrySeqs(n - 1)
         IN  shorter \cup {e \o r : e \in ForeignEntries, r \in shorter}

ForeignTrees ==
    {Header("Tree", ByteLen(b \o l)) \o b \o l :
        b \in EntrySeqs(MaxEntries - 1),
        l \in ForeignEntries \cup {<<>>}
              \cup {m \o <<SP, 97, NUL>> \o d : m \in ForeignModes, d \in {<<>>, <<7>>}}}

NextRead ==
    /\ nops < MaxReadOps
    /\ \/ \E h \in DOMAIN objs : ReadObject(h)
       \/ \E h \in DOMAIN objs : CatFileObject(h)
       \/ \E h \in DOMAIN objs : BuildTreeObject(h)

InitRead ==
    /\ \E raw \in ForeignStreams \cup ForeignTrees :
          /\ inodes = <<ZlibEncode(raw)>>
          /\ sha = <<raw>>
    /\ tmpf = 0
    /\ objs = (HexBase + 1 :> 1)
    /\ fanout = {FanOut(HexBase + 1)}
    /\ InitCmp
    /\ InitTree
    /\ InitCommit
    /\ InitConc
    /\ nops = 0
    /\ puts = {}
    /\ last = NoLast

SpecRead == InitRead /\ [][NextRead]_vars

\* the decompressed stream of the object file at h, its text before the
\* first nul, and the words of that text before and after the first space
StreamOf(h) == ZlibDecode(inodes[objs[h]]).data
HeaderOf(h) == SubSeq(StreamOf(h), 1, IndexOf(StreamOf(h), NUL) - 1)
KindOf(h) ==
    IF IndexOf(HeaderOf(h), SP) = 0 THEN HeaderOf(h)
    ELSE SubSeq(HeaderOf(h), 1, IndexOf(HeaderOf(h), SP) - 1)
SizeOf(h) ==
    IF IndexOf(HeaderOf(h), SP) = 0 THEN <<>>
    ELSE SubSeq(HeaderOf(h), IndexOf(HeaderOf(h), SP) + 1, Len(HeaderOf(h)))
BodyOf(h) == SubSeq(StreamOf(h), IndexOf(StreamOf(h), NUL) + 1, Len(StreamOf(h)))

\* the header is malformed: no nul, not UTF-8, a size that is not a decimal
\* numeral (which may carry a plus sign), or an unknown type
MalformedHeader(h) ==
    \/ IndexOf(StreamOf(h), NUL) = 0
    \/ \E i \in 1..Len(HeaderOf(h)) : HeaderOf(h)[i] >= 128
    \/ \E sz \in {SizeOf(h)} :
          /\ ~(sz # <<>> /\ \A i \in 1..Len(sz) : sz[i] \in 48..57)
          /\ ~(Len(sz) > 1 /\ sz[1] = 43 /\ \A i \in 2..Len(sz) : sz[i] \in 48..57)
    \/ KindOf(h) \notin {TypeName(t) : t \in ObjectTypes}

\* C13: a read of a stored object whose stream has no nul, or whose text
\* before the first nul is not UTF-8, or whose size is not a non-negative
\* integer, or whose type name is not blob, tree or commit, returns an error
\* value: it does not crash and it returns no object.
HeaderErrors ==
    /\ last.op = "read" => (MalformedHeader(last.hash) => last.rd.res = "Err")
    /\ last.op = "cat_file" => (MalformedHeader(last.hash) => ~last.ok)

\* C14: a read of a stored object whose header is well formed and whose
\* content is shorter or longer than the size the header declares returns
\* an error.
SizeChecked ==
    (/\ last.op \in {"read", "cat_file"}
     /\ ~MalformedHeader(last.hash)
     /\ ByteLen(BodyOf(last.hash)) # ParseU64(SizeOf(last.hash))) =>
        IF last.op = "read" THEN last.rd.res = "Err" ELSE ~last.ok

\* the bytes of the entries of a decoded tree, in the form they are stored
RECURSIVE EntriesBytes(_)
EntriesBytes(es) ==
    IF es = <<>> THEN <<>>
    ELSE ToRawBytes(Head(es), HexDecode(Head(es).sha)) \o EntriesBytes(Tail(es))

\* C16: build_tree on a stored object whose header is well formed returns
\* an entry list or an error value, an error if the object is not a tree,
\* and an entry list only if the content of the tree is the entries of the
\* list in their stored form and nothing else, so that a content which ends
\* within an entry, or has an entry without a space, gives an error.
TreeDecodingOutcomes ==
    (last.op = "build_tree" /\ ~MalformedHeader(last.hash)) =>
        /\ last.bt.res \in {"Ok", "Err"}
        /\ KindOf(last.hash) # TypeName("Tree") => last.bt.res = "Err"
        /\ last.bt.res = "Ok" =>
              EntriesBytes(last.bt.entries)
                 = TakeBytes(BodyOf(last.hash), ParseU64(SizeOf(last.hash)))

\* ----------------------------------------------------------- tree round trip
\* the children of dir that write_tree_for keeps, in the order of the sort:
\* not the metadata directory, not a subdirectory that is elided
Survivors(dir) ==
    SelectSeq(SortEntries(Builders(dir)),
              LAMBDA b : /\ b.name # MetaName
                         /\ b.is_dir => HasFile(b.path.children, FALSE))

\* build_tree on h gives one entry for each surviving child of dir, in the
\* order of the sort, with the child's name and mode and the digest of the
\* child's blob or sub-tree, and the stored content is these entries
RECURSIVE TreeIsOf(_, _, _)
TreeIsOf(st, h, dir) ==
    Bind(BuildTree(st, h), LAMBDA t :
    Bind(Survivors(dir), LAMBDA s :
        /\ t.res = "Ok"
        /\ Len(t.entries) = Len(s)
        /\ EntriesBytes(t.entries) = ObjectRead(st, h).content
        /\ \A j \in 1..Len(s) :
              /\ t.entries[j].name = s[j].name
              /\ t.entries[j].mode = s[j].mode
              /\ IF s[j].is_dir
                 THEN TreeIsOf(st, t.entries[j].sha, s[j].path.children)
                 ELSE \E o \in {ObjectRead(st, t.entries[j].sha)} :
                         /\ o.res = "Ok"
                         /\ o.object_type = "Blob"
                         /\ o.content = IF s[j].path.tmp THEN TmpContent
                                        ELSE s[j].path.content))

\* C15: when write_tree_for returns Some(d) for a directory, build_tree on d
\* returns exactly one entry for each surviving child, in comparator order,
\* with the child's name, its mode and the digest of the child's blob or
\* sub-tree.
TreeRoundTrip ==
    (last.op = "write_tree" /\ runs[Len(runs)].res = "Some") =>
        TreeIsOf(St, HexEncode(runs[Len(runs)].hash), runs[Len(runs)].root)

\* ------------------------------------------------------ referential integrity
\* the branch file of the repository before the first commit of the run
FirstRef == IF commits = <<>> THEN refs["git"] ELSE commits[1].refsBefore["git"]

\* C17: after any sequence of write_tree_for and commit, every child digest
\* in a stored tree names a stored object, and the tree digest and the
\* parent digest of every stored commit name stored objects (the parent may
\* also be the tip that the branch had before the run), no commit being its
\* own parent.
ReferentialIntegrity ==
    \A h \in DOMAIN objs :
        \E o \in {ObjectRead(St, h)} :
            /\ (o.res = "Ok" /\ o.object_type = "Tree") =>
                  \E t \in {BuildEntries(o.content, <<>>)} :
                      /\ t.res = "Ok"
                      /\ \A j \in 1..Len(t.entries) : t.entries[j].sha \in DOMAIN objs
            /\ (o.res = "Ok" /\ o.object_type = "Commit") =>
                  /\ o.content[Len(TreeWord) + 1] \in DOMAIN objs
                  /\ \/ ~HasParentLine(o.content)
                     \/ /\ Len(ParentOfText(o.content)) = 1
                        /\ ParentOfText(o.content)[1] \in DOMAIN objs
                     \/ /\ FirstRef.exists
                        /\ ParentOfText(o.content) = Trim(FirstRef.bytes)
                  /\ ParentOfText(o.content) # <<h>>

\* --------------------------------------------------------- metadata exclusion
\* dir without the children named as the metadata directory, at every depth
RECURSIVE WithoutMeta(_)
WithoutMeta(dir) ==
    IF dir = <<>> THEN <<>>
    ELSE IF Head(dir).name = MetaName THEN WithoutMeta(Tail(dir))
    ELSE <<[Head(dir) EXCEPT !.children = WithoutMeta(@)]>> \o WithoutMeta(Tail(dir))

\* the names of the entries of the stored tree h
EntryNames(st, h) ==
    Bind(BuildTree(st, h), LAMBDA t : [j \in 1..Len(t.entries) |-> t.entries[j].name])

\* the names of the children of dir that are not named as the metadata
\* directory and are not subdirectories without a file, in the order of the
\* sort
KeptNames(dir) ==
    Bind(Survivors(dir), LAMBDA s : [j \in 1..Len(s) |-> s[j].name])

\* C18: write_tree_for skips the children named as the metadata directory:
\* no stored tree has an entry of that name, a run returns what it returns
\* and stores what it stores on the same directory without these children
\* (no file under them becomes a blob), and every other child of the
\* directory has its entry in the tree unless it is a subdirectory without
\* a file.
MetadataExcluded ==
    /\ [](/\ \A h \in DOMAIN objs :
                \A j \in 1..Len(EntryNames(St, h)) : EntryNames(St, h)[j] # MetaName
          /\ last.op = "write_tree" =>
                \E r \in {runs[Len(runs)]} :
                    /\ r.res = "Some" =>
                          EntryNames(St, HexEncode(r.hash)) = KeptNames(r.root)
                    /\ r.res = "None" => KeptNames(r.root) = <<>>)
    /\ [][last'.op = "write_tree" =>
            \E r \in {runs'[Len(runs')]} :
                \E x \in {WriteTreeFor(St, WithoutMeta(wd), TRUE, r.order)} :
                    /\ x.res = r.res
                    /\ x.hash = r.hash
                    /\ StoreView(x.st) = r.after]_vars

MetadataExcludedWitness ==
    /\ last.op = "write_tree"
    /\ runs[Len(runs)].res = "Some"
    /\ \E i, j \in 1..Len(wd) :
          /\ wd[i].name = MetaName /\ wd[i].meta.is_dir /\ wd[i].children # <<>>
          /\ wd[j].name # MetaName /\ ~wd[j].meta.is_dir
    /\ Len(EntryNames(St, HexEncode(runs[Len(runs)].hash))) = 1

\* ------------------------------------------------------ working tree untouched
\* C20: write_tree_for leaves the snapshotted directory as it found it: the
\* same files are listed after the run as before it, a file named
\* "temporary" included, and that file holds what it held, whether or not
\* the snapshotted directory is the current directory.
WorkingTreeReadOnly ==
    last.op = "write_tree" =>
        /\ ReadDir(St, wd, TRUE, [rot |-> 0, rev |-> FALSE]) = runs[Len(runs)].root
        /\ (cwdSnap /\ tmpf # 0) => inodes[tmpf] = TmpContent

\* ------------------------------------------------- immutability of the store
\* puts, snapshots and commits in sequence on one repository
NextStore ==
    /\ nops < MaxStoreOps
    /\ \/ \E t \in ObjectTypes, c \in FileContents : PutObject(t, c)
       \/ \E c \in FileContents : HashObject(TRUE, c)
       \/ \E order \in ListOrders : WriteTree(order)
       \/ \E m \in Messages, order \in ListOrders, t \in clock..MaxClock : Commit(m, order, t)

\* from the repositories of Init whose HEAD names a branch: the branch
\* without tip, the branch with a tip, and a branch file that can be read in
\* the current directory but not written under dot_git_path
InitStore ==
    /\ Init
    /\ head = SymbolicHead
    /\ \/ gitIsCwd
       \/ refs["cwd"].exists /\ ~refs["git"].exists /\ ~headsDir

SpecStore == InitStore /\ [][NextStore]_vars

\* the disk after the step
StNext == [ino |-> inodes', tmp |-> tmpf', objs |-> objs', fan |-> fanout', sha |-> sha']

\* C19: an operation leaves every stored object stored, and a read of its
\* digest returning the type and the content it returned before; a put of
\* an object that is stored already returns its digest and leaves the set
\* of stored objects and their bytes as they were.
ObjectsImmutable ==
    [][/\ \A h \in DOMAIN objs :
             /\ h \in DOMAIN objs'
             /\ ObjectRead(StNext, h) = ObjectRead(St, h)
       /\ last'.op \in {"put", "hash_w"} =>
             \A h \in DOMAIN objs :
                 (\E o \in {ObjectRead(St, h)} :
                     /\ o.res = "Ok"
                     /\ o.object_type = last'.object_type
                     /\ o.content = last'.content
                     /\ o.expected_size = ByteLen(last'.content)) =>
                     /\ last'.ok
                     /\ HexEncode(last'.hash) = h
                     /\ StoreView(StNext) = StoreView(St)]_vars

ObjectsImmutableWitness ==
    /\ last.op = "put"
    /\ Len(runs) = 1
    /\ runs[1].res = "Some"
    /\ last.object_type = "Blob"
    /\ HexEncode(last.hash) \in DOMAIN runs[1].after
    /\ StoreView(St) = runs[1].after
====
